---- MODULE Spec2Model ----
(***************************************************************************)
(* Model of the Rayment client SDK (RaymentClient): the single-job flow    *)
(* render() and the batch scheduler renderBatch() with its per-file        *)
(* lifecycle processFile().                                                *)
(*                                                                         *)
(* JavaScript runs one handler at a time: a handler is the code between    *)
(* two awaits.  Every action below is one such handler (the synchronous    *)
(* continuation that runs when an awaited response arrives), a promise     *)
(* reaction (microtask), or one iteration of the synchronous scheduling    *)
(* loop.  Microtasks run before the next external response is delivered.   *)
(***************************************************************************)
EXTENDS Integers, Sequences, FiniteSets, TLC

\* ---------------------------------------------------------------- bounds
MaxFiles == 3        \* longest input list tried
MaxPolls == 2        \* polls of one job before the environment ends the wait
MaxDetailed == 1     \* longest input list run against every answer of the hub
MaxPrice == 1        \* largest entry of a tariff, in micro-SOL
MaxFrames == 1       \* largest frame count
MaxPriceCalls == 2   \* calculatePrice calls in one behaviour
MaxSockets == 3      \* WebSocket connections a provider creates
MaxHeartbeats == 2   \* heartbeat messages a provider sends
MaxJobs == 2         \* render jobs a provider accepts
MaxPricingCalls == 2 \* setPricing calls awaiting the hub at one time

\* ------------------------------------------------------ program constants
DefaultConcurrency == 3
DefaultFeePercent == 5     \* platformFeePercent of calculatePrice
EstimatedSeconds == 60     \* estimatedSeconds of estimateCost

\* ------------------------------------------------------------ input sets
PathNames == <<"a", "b", "c", "d", "e">>
Paths == {PathNames[k] : k \in 1..MaxFiles}
PathIndex(p) == CHOOSE k \in 1..MaxFiles : PathNames[k] = p

\* input lists: the empty list and every list of up to MaxFiles paths, one
\* list for each pattern of repeated entries (the names are interchangeable:
\* an entry is one of the paths before it or the next unused name)
FileLists ==
    {<<>>} \cup
    UNION { {s \in [1..n -> Paths] :
                \A k \in 1..n :
                    \/ PathIndex(s[k]) = 1
                    \/ \E j \in 1..(k - 1) : PathIndex(s[j]) + 1 >= PathIndex(s[k])}
            : n \in 1..MaxFiles }

Concurrencies == {-1, 0, 1, 2, DefaultConcurrency}

\* config.wallet given / config.privateKey given / config.autoRetry
Configs ==
    { [wallet |-> TRUE,  privateKey |-> FALSE, autoRetry |-> TRUE],
      [wallet |-> FALSE, privateKey |-> FALSE, autoRetry |-> FALSE],
      [wallet |-> FALSE, privateKey |-> TRUE,  autoRetry |-> TRUE],
      [wallet |-> FALSE, privateKey |-> TRUE,  autoRetry |-> FALSE] }

VARIABLES
    pc,              \* position of the caller's call (render / renderBatch)
    options,         \* the BatchRenderOptions of the call
    config,          \* this.config / this.solana
    queue,           \* renderBatch: queue (positions of the pending inputs)
    activePromises,  \* renderBatch: Map<file, Promise>, path -> position (0: no entry)
    raced,           \* promises handed to the pending Promise.race
    lc,              \* per input position: the state of its processFile call
    successful,      \* renderBatch: successful
    failed,          \* renderBatch: failed
    fileStatuses,    \* renderBatch: Map<file, BatchFileStatus>, path -> status
    nFileProgress,   \* number of onFileProgress invocations
    nBatchProgress,  \* number of onBatchProgress invocations
    batchProgress,   \* the BatchProgress passed to the latest onBatchProgress
    outputDir,       \* TRUE once the output directory has been ensured
    result,          \* stats of the returned BatchRenderResult
    hub,             \* which answers the hub and the chain may give
    priceArgs,       \* the arguments the prices are computed for
    priceCalls,      \* number of calculatePrice calls made
    firstBreakdown,  \* what the first calculatePrice call returned
    breakdown,       \* what the latest calculatePrice call returned
    estimate,        \* the breakdown the latest estimateCost call returned
    estimateError,   \* error.message of an estimateCost call that threw
    ppc,             \* RaymentProvider: position of the start() / stop() calls
    sockets,         \* state of every WebSocket created; this.ws is the last
    reconnectTimers, \* pending setTimeout(() => this.connectWebSocket(), 5000)
    heartbeatTimers, \* running setInterval heartbeat timers
    heartbeats,      \* heartbeat messages sent
    hubStatus,       \* the provider's status as last accepted by the hub
    atStop,          \* sockets created and heartbeats sent when stop() completed
    serving,         \* TRUE once app.listen has opened the render server
    isRendering,     \* RaymentProvider.isRendering
    jobs,            \* the processRender executions, in order of acceptance
    lastReply,       \* the answer to the latest POST /render
    configPricing,   \* this.config.pricing
    pricingCalls,    \* setPricing calls awaiting their PUT /provider/pricing
    pricingResult    \* how the latest answered setPricing call ended

clientVars == <<pc, options, config, queue, activePromises, raced, lc, successful,
                failed, fileStatuses, nFileProgress, nBatchProgress, batchProgress,
                outputDir, result, hub>>

priceVars == <<priceArgs, priceCalls, firstBreakdown, breakdown, estimate,
               estimateError>>

serverVars == <<isRendering, jobs, lastReply, configPricing, pricingCalls, pricingResult>>

providerVars == <<ppc, sockets, reconnectTimers, heartbeatTimers, heartbeats,
                  hubStatus, atStop, serving, serverVars>>

vars == <<clientVars, priceVars, providerVars>>

\* The answers of the hub and of the chain.  hub = "any": every answer the
\* code distinguishes.  hub = "brief": the answers that decide the scheduling
\* (a job fails at once on a missing file, fails later at the confirmation
\* of its payment, or succeeds).  "402expired" is a payment-required answer
\* whose quote has its expiresAt in the past; "500" is any other error status.
SubmitReplies   == IF hub = "any"
                   THEN {"402", "402expired", "200", "500", "submitError"}
                   ELSE {"402"}
PaymentReplies  == IF hub = "any" THEN {"signature", "paymentError"} ELSE {"signature"}
ConfirmReplies  == IF hub = "any"
                   THEN {"accepted", "rejected", "rejectedNoReason", "confirmError"}
                   ELSE {"accepted", "rejected"}
JobStatuses     == {"queued", "rendering", "completed", "failed", "cancelled"}
PollReplies     == IF hub = "any" THEN JobStatuses \cup {"pollError"} ELSE {"completed"}
DownloadReplies == IF hub = "any" THEN {"bytes", "downloadError"} ELSE {"bytes"}

files == options.files
N == Len(files)
concurrency == options.concurrency
stopOnError == options.stopOnError

NoResult == [total |-> -1, completed |-> -1, failed |-> -1, totalCost |-> -1]

\* the price the hub quotes for the job of input position i
QuotedPrice(i) == i

RECURSIVE SumCost(_)
SumCost(s) == IF s = <<>> THEN 0 ELSE Head(s).cost + SumCost(Tail(s))

\* a reduce that adds the price quoted to every job that got a quote
TotalCostOfQuoted(succ) == SumCost([i \in 1..N |->
                               [cost |-> IF lc[i].returned >= 1 THEN QuotedPrice(i) ELSE 0]])

\* successful.reduce((sum, r) => sum + (r.cost || 0), 0)
TotalCost(succ) == SumCost(succ)

NoProgress == [total |-> -1, completed |-> -1, failed |-> -1, inProgress |-> -1,
               totalCost |-> -1]

\* a snapshot whose inProgress forgets the failed jobs
BatchProgressLessCompleted(succ, fail) ==
    [total |-> N, completed |-> Len(succ), failed |-> Len(fail),
     inProgress |-> N - Len(succ), totalCost |-> TotalCost(succ)]

\* the BatchProgress that updateBatchProgress builds from the two lists
BatchProgress(succ, fail) ==
    [total |-> N, completed |-> Len(succ), failed |-> Len(fail),
     inProgress |-> N - Len(succ) - Len(fail), totalCost |-> TotalCost(succ)]

\* activePromises.size
Size(m) == Cardinality({p \in Paths : m[p] # 0})
\* activePromises.values()
Values(m) == {m[p] : p \in {q \in Paths : m[q] # 0}}

\* the number of entries of s equal to x
Count(s, x) == Cardinality({k \in 1..Len(s) : s[k] = x})

\* A lifecycle: stage (where it waits), error (error.message of its failure),
\* rejected (its promise was rejected, not fulfilled), calls (the external
\* calls it has issued, in order), returned (how many of them have returned
\* successfully), last (the last answer it received), elapsed (what the
\* clock showed when the latest status of the job arrived).
NewLifecycle ==
    [stage |-> "pending", error |-> "", rejected |-> FALSE,
     calls |-> <<>>, returned |-> 0, last |-> "none", elapsed |-> "within"]

ClientInit ==
    /\ pc = "idle"
    /\ options \in [files : FileLists, given : BOOLEAN,
                    concurrency : Concurrencies, stopOnError : BOOLEAN]
    /\ options.given \/ (options.files = <<>> /\ options.concurrency = DefaultConcurrency
                         /\ ~options.stopOnError)
    /\ config \in Configs
    /\ queue = <<>>
    /\ activePromises = [p \in Paths |-> 0]
    /\ raced = {}
    /\ lc = [i \in 1..Len(options.files) |-> NewLifecycle]
    /\ successful = <<>>
    /\ failed = <<>>
    /\ fileStatuses = [p \in Paths |-> "none"]
    /\ nFileProgress = 0
    /\ nBatchProgress = 0
    /\ batchProgress = NoProgress
    /\ outputDir = FALSE
    /\ result = NoResult
    /\ hub \in {"any", "brief"}
    /\ hub = "any" => Len(options.files) <= MaxDetailed
    /\ hub = "brief" => config.autoRetry

\* ------------------------------------------------------------------------
\* One job's lifecycle.  Every operator is the synchronous code that runs
\* from one await to the next; it yields the new state l of the lifecycle
\* and u, the statuses passed to updateFileStatus on the way (processFile
\* only; render has no status map).
\* ------------------------------------------------------------------------

\* a processFile without its catch block: the error rejects its promise
CatchRethrows(l, msg) ==
    [l |-> [l EXCEPT !.stage = "settled", !.error = msg, !.rejected = TRUE],
     u |-> <<>>]

\* processFile's catch block: the promise of processFile is fulfilled with a
\* result that carries error.message
Catch(l, msg) ==
    [l |-> [l EXCEPT !.stage = "settled", !.error = msg, !.rejected = FALSE],
     u |-> <<"failed">>]

\* render has no catch: the error rejects the promise of the call
Throw(l, msg) ==
    [l |-> [l EXCEPT !.stage = "settled", !.error = msg, !.rejected = TRUE],
     u |-> <<>>]

Raise(l, msg) == IF pc = "render" THEN Throw(l, msg) ELSE Catch(l, msg)

\* r, preceded by the status updates u
After(u, r) == [l |-> r.l, u |-> u \o r.u]

\* an external call is issued: the lifecycle waits in stage st
Call(l, st, name) == [l EXCEPT !.stage = st, !.calls = Append(@, name)]

\* the outstanding call has returned successfully with answer reply
Returned(l, reply) == [l EXCEPT !.returned = @ + 1, !.last = reply]

\* the outstanding call has failed with answer reply
Failed(l, reply) == [l EXCEPT !.last = reply]

\* requestRender up to its POST /render
RequestRenderCall(l) ==
    IF ~(config.wallet \/ config.privateKey)
    THEN Raise(l, "Wallet address required")
    ELSE [l |-> Call(l, "requestRender", "submit"), u |-> <<>>]

\* a processFile that reports uploading before it looks for the file
ProcessFileStartReportsFirst(l, exists) ==
    After(<<"uploading">>,
          IF ~exists THEN Catch(l, "File not found") ELSE RequestRenderCall(l))

\* processFile from its start to its first await
ProcessFileStart(l, exists) ==
    IF ~exists
    THEN Catch(l, "File not found")
    ELSE After(<<"uploading">>, RequestRenderCall(l))

\* payForRender up to solana.sendPayment
PayForRenderCall(l) ==
    IF ~config.privateKey
    THEN Raise(l, "Private key required for payments")
    ELSE [l |-> Call(l, "sendPayment", "sendPayment"), u |-> <<>>]

\* a requestRender that submits again after an error when autoRetry is set
AfterSubmitRetry(l, reply) ==
    CASE reply \in {"402", "402expired"} ->
            After(<<"paying">>, PayForRenderCall(Returned(l, reply)))
      [] reply = "200" -> Raise(Failed(l, reply), "Expected 402 response")
      [] reply = "500" -> Raise(Failed(l, reply), "Request failed with status code 500")
      [] reply = "submitError" ->
            IF config.autoRetry /\ Count(l.calls, "submit") < 2
            THEN RequestRenderCall(Failed(l, reply))
            ELSE Raise(Failed(l, reply), "Network Error")

\* a requestRender that takes the quote from a 2xx answer as well
AfterSubmitAcceptsSuccess(l, reply) ==
    CASE reply \in {"402", "402expired", "200"} ->
            After(<<"paying">>, PayForRenderCall(Returned(l, reply)))
      [] reply = "500" -> Raise(Failed(l, reply), "Request failed with status code 500")
      [] reply = "submitError" -> Raise(Failed(l, reply), "Network Error")

\* the answer to POST /render arrives: the quote is error.response.data.payment
\* of a 402; a 2xx throws 'Expected 402 response'; every other error is rethrown
AfterSubmit(l, reply) ==
    CASE reply \in {"402", "402expired"} ->
            After(<<"paying">>, PayForRenderCall(Returned(l, reply)))
      [] reply = "200" -> Raise(Failed(l, reply), "Expected 402 response")
      [] reply = "500" -> Raise(Failed(l, reply), "Request failed with status code 500")
      [] reply = "submitError" -> Raise(Failed(l, reply), "Network Error")

\* waitForCompletion up to its first getJobStatus
WaitForCompletionCall(l) == [l |-> Call(l, "poll", "poll"), u |-> <<>>]

\* a payForRender that does not confirm the payment with the hub
AfterPaymentNoConfirm(l, reply) ==
    IF reply = "signature"
    THEN After(<<"rendering">>, WaitForCompletionCall(Returned(l, reply)))
    ELSE Raise(Failed(l, reply), "Transaction failed")

\* sendPayment settles
AfterPayment(l, reply) ==
    IF reply = "signature"
    THEN [l |-> Call(Returned(l, reply), "confirm", "confirm"), u |-> <<>>]
    ELSE Raise(Failed(l, reply), "Transaction failed")

\* a payForRender that pays again when the hub rejects the confirmation
AfterConfirmRepay(l, reply) ==
    CASE reply = "accepted" ->
            After(<<"rendering">>, WaitForCompletionCall(Returned(l, reply)))
      [] reply \in {"rejected", "rejectedNoReason"} ->
            IF Count(l.calls, "sendPayment") < 2
            THEN PayForRenderCall(Failed(l, reply))
            ELSE Raise(Failed(l, reply), "Payment confirmation failed")
      [] reply = "confirmError" -> Raise(Failed(l, reply), "Network Error")

\* the answer to POST /render/pay arrives
AfterConfirm(l, reply) ==
    CASE reply = "accepted" ->
            After(<<"rendering">>, WaitForCompletionCall(Returned(l, reply)))
      [] reply = "rejected"         -> Raise(Failed(l, reply), "Invalid payment")
      [] reply = "rejectedNoReason" -> Raise(Failed(l, reply), "Payment confirmation failed")
      [] reply = "confirmError"     -> Raise(Failed(l, reply), "Network Error")

\* downloadResult up to its GET /render/:id/result
DownloadResultCall(l) == [l |-> Call(l, "download", "fetch"), u |-> <<>>]

\* job.error of a failed job, as the hub reports it
JobError == "out of memory"

\* What the clock shows when waitForCompletion reads it, against the timeout:
\* less than the timeout since the job was submitted; more than the timeout
\* since the submission but not since waitForCompletion took its startTime;
\* more than the timeout since startTime.
Clocks == <<"within", "overSinceSubmission", "overSinceStartTime">>

ClockRank(c) == CHOOSE k \in 1..Len(Clocks) : Clocks[k] = c

\* a waitForCompletion that downloads the result of a failed job as well
AfterPollFetchesFailed(l, reply, clock) ==
    IF reply = "pollError" THEN Raise(Failed(l, reply), "Network Error")
    ELSE LET j == [Returned(l, reply) EXCEPT !.elapsed = clock] IN
         After(<<"rendering">>,
            CASE reply \in {"completed", "failed"} ->
                     After(<<"downloading">>, DownloadResultCall(j))
              [] OTHER -> IF clock = "overSinceStartTime"
                          THEN Raise(j, "Timeout waiting for render")
                          ELSE [l |-> [j EXCEPT !.stage = "sleep"], u |-> <<>>])

\* the answer to GET /render/:id arrives, clock being what Date.now() shows
\* by then.  A rejected request is thrown out of waitForCompletion;
\* 'completed' returns; 'failed' throws the hub's reason; only for the other
\* statuses is the clock read: Date.now() - startTime > timeout throws,
\* otherwise the loop sleeps.
AfterPoll(l, reply, clock) ==
    IF reply = "pollError" THEN Raise(Failed(l, reply), "Network Error")
    ELSE LET j == [Returned(l, reply) EXCEPT !.elapsed = clock] IN
         After(<<"rendering">>,
            CASE reply = "completed" -> After(<<"downloading">>, DownloadResultCall(j))
              [] reply = "failed"    -> Raise(j, "Render failed: " \o JobError)
              [] OTHER -> IF clock = "overSinceStartTime"
                          THEN Raise(j, "Timeout waiting for render")
                          ELSE [l |-> [j EXCEPT !.stage = "sleep"], u |-> <<>>])

\* the poll interval has passed: the next getJobStatus
AfterSleep(l) == WaitForCompletionCall(l)

\* a processFile that reports completed before the result has been fetched
AfterDownloadCompletesFirst(l, reply) ==
    IF reply = "bytes"
    THEN [l |-> [Returned(l, reply) EXCEPT !.stage = "settled"],
          u |-> IF pc = "render" THEN <<>> ELSE <<"completed">>]
    ELSE After(IF pc = "render" THEN <<>> ELSE <<"completed">>,
               Raise(Failed(l, reply), "Download failed"))

\* the answer to GET /render/:id/result arrives
AfterDownload(l, reply) ==
    IF reply = "bytes"
    THEN [l |-> [Returned(l, reply) EXCEPT !.stage = "settled"],
          u |-> IF pc = "render" THEN <<>> ELSE <<"completed">>]
    ELSE Raise(Failed(l, reply), "Download failed")

\* the BatchFileResult processFile returns
ResultOf(i) ==
    [file |-> i, error |-> lc[i].error,
     cost |-> IF lc[i].error = "" THEN QuotedPrice(i) ELSE 0]

\* ------------------------------------------------------------------------
\* Scheduling of handlers
\* ------------------------------------------------------------------------

\* lifecycles whose promise has settled and whose .then reaction has not run
Settled == {i \in 1..N : lc[i].stage = "settled"}

\* a scheduler that waits for the whole round: Promise.all in place of race
RaceSettledByAll == raced # {} /\ \A i \in raced : lc[i].stage = "done"

\* Promise.race settles as soon as one of the promises it was given has
RaceSettled == \E i \in raced : lc[i].stage = "done"

\* a reaction is queued: it runs before any further response is delivered
MicrotaskPending ==
    \/ pc \in {"await", "returned"} /\ Settled # {}
    \/ pc = "await" /\ RaceSettled

\* a response may be delivered to a lifecycle
Deliverable == pc \in {"await", "returned", "render"} /\ ~MicrotaskPending

\* updateFileStatus for each status of u, in order
UpdateFileStatus(p, u) ==
    /\ fileStatuses' = IF u = <<>> THEN fileStatuses
                       ELSE [fileStatuses EXCEPT ![p] = u[Len(u)]]
    /\ nFileProgress' = nFileProgress + Len(u)

\* lifecycle i moves to r.l; a settled render() ends the caller's call
Step(i, r) ==
    /\ lc' = [lc EXCEPT ![i] = r.l]
    /\ IF pc = "render"
       THEN /\ pc' = IF r.l.stage # "settled" THEN pc
                     ELSE IF r.l.rejected THEN "renderThrew" ELSE "renderReturned"
            /\ UNCHANGED <<fileStatuses, nFileProgress>>
       ELSE /\ pc' = pc
            /\ UpdateFileStatus(files[i], r.u)
    /\ UNCHANGED <<options, config, queue, activePromises, raced, successful,
                   failed, nBatchProgress, batchProgress, outputDir, result, hub, priceVars, providerVars>>

SubmitResponse(i) ==
    /\ lc[i].stage = "requestRender" /\ Deliverable
    /\ \E reply \in SubmitReplies : Step(i, AfterSubmit(lc[i], reply))

PaymentResponse(i) ==
    /\ lc[i].stage = "sendPayment" /\ Deliverable
    /\ \E reply \in PaymentReplies : Step(i, AfterPayment(lc[i], reply))

ConfirmResponse(i) ==
    /\ lc[i].stage = "confirm" /\ Deliverable
    /\ \E reply \in ConfirmReplies : Step(i, AfterConfirm(lc[i], reply))

PollResponse(i) ==
    /\ lc[i].stage = "poll" /\ Deliverable
    /\ \E reply \in PollReplies, k \in 1..Len(Clocks) :
          \* time does not run backwards
          /\ k >= ClockRank(lc[i].elapsed)
          \* the wait is cut off after MaxPolls polls
          /\ \/ Count(lc[i].calls, "poll") < MaxPolls
             \/ Clocks[k] = "overSinceStartTime"
             \/ reply \in {"completed", "failed", "pollError"}
          \* a hub that answers only the successful path answers in time
          /\ (reply = "pollError" \/ hub = "brief") => k = ClockRank(lc[i].elapsed)
          \* the clock at the answer 'completed' or 'failed', which the code does
          \* not read, is followed for the job of render() only
          /\ (reply \in {"completed", "failed"} /\ pc # "render") =>
                k = ClockRank(lc[i].elapsed)
          /\ Step(i, AfterPoll(lc[i], reply, Clocks[k]))

PollTimer(i) ==
    /\ lc[i].stage = "sleep" /\ Deliverable
    /\ Step(i, AfterSleep(lc[i]))

DownloadResponse(i) ==
    /\ lc[i].stage = "download" /\ Deliverable
    /\ \E reply \in DownloadReplies : Step(i, AfterDownload(lc[i], reply))

\* ------------------------------------------------------------------------
\* render(): the single-job flow
\* ------------------------------------------------------------------------
Render ==
    /\ pc = "idle" /\ options.given /\ N = 1
    /\ LET r == RequestRenderCall(lc[1]) IN
         /\ lc' = [lc EXCEPT ![1] = r.l]
         /\ pc' = IF r.l.stage = "settled" THEN "renderThrew" ELSE "render"
    /\ UNCHANGED <<options, config, queue, activePromises, raced, successful, failed,
                   fileStatuses, nFileProgress, nBatchProgress, batchProgress, outputDir, result, hub, priceVars, providerVars>>

\* ------------------------------------------------------------------------
\* renderBatch()
\* ------------------------------------------------------------------------

\* a validation that only checks that a list was passed
InvalidInputMissingOnly == ~options.given

\* !files || files.length === 0
InvalidInput == ~options.given \/ N = 0

\* the call: input validation, output directory, status map, queue
RenderBatch ==
    /\ pc = "idle"
    /\ IF InvalidInput
       THEN /\ pc' = "threw"
            /\ UNCHANGED <<queue, fileStatuses, outputDir>>
       ELSE /\ pc' = "loop"
            /\ outputDir' = TRUE
            /\ fileStatuses' = [p \in Paths |->
                                  IF \E i \in 1..N : files[i] = p THEN "pending" ELSE "none"]
            /\ queue' = [i \in 1..N |-> i]
    /\ UNCHANGED <<options, config, activePromises, raced, lc, successful, failed,
                   nFileProgress, nBatchProgress, batchProgress, result, hub, priceVars, providerVars>>

\* a scheduler that takes the newest entry of the queue: queue.pop()
ShiftFromEnd(q) == [file |-> q[Len(q)], rest |-> SubSeq(q, 1, Len(q) - 1)]

\* queue.shift(): the oldest entry of the queue leaves it
Shift(q) == [file |-> Head(q), rest |-> Tail(q)]

\* one round of the inner loop: queue.shift(), processFile(file) up to its
\* first await, activePromises.set(file, promise)
StartTask ==
    /\ pc = "loop" /\ queue # <<>> /\ Size(activePromises) < concurrency
    /\ LET i == Shift(queue).file IN
       \E exists \in BOOLEAN :
         LET r == ProcessFileStart(lc[i], exists) IN
           /\ queue' = Shift(queue).rest
           /\ lc' = [lc EXCEPT ![i] = r.l]
           /\ UpdateFileStatus(files[i], r.u)
           /\ activePromises' = [activePromises EXCEPT ![files[i]] = i]
    /\ UNCHANGED <<pc, options, config, raced, successful, failed, nBatchProgress, batchProgress,
                   outputDir, result, hub, priceVars, providerVars>>

\* await Promise.race(activePromises.values())
AwaitRace ==
    /\ pc = "loop"
    /\ ~(queue # <<>> /\ Size(activePromises) < concurrency)
    /\ Size(activePromises) > 0
    /\ pc' = "await"
    /\ raced' = Values(activePromises)
    /\ UNCHANGED <<options, config, queue, activePromises, lc, successful, failed,
                   fileStatuses, nFileProgress, nBatchProgress, batchProgress, outputDir, result, hub, priceVars, providerVars>>

\* the outer loop turns without starting or awaiting anything
Spin ==
    /\ pc = "loop"
    /\ queue # <<>> /\ ~(Size(activePromises) < concurrency)
    /\ Size(activePromises) = 0
    /\ pc' = "loop"
    /\ UNCHANGED <<options, config, queue, activePromises, raced, lc, successful, failed,
                   fileStatuses, nFileProgress, nBatchProgress, batchProgress, outputDir, result, hub, priceVars, providerVars>>

\* the loop is left: the stats are computed and the result is returned
Return ==
    /\ pc = "loop" /\ queue = <<>> /\ Size(activePromises) = 0
    /\ pc' = "returned"
    /\ result' = [total |-> N, completed |-> Len(successful), failed |-> Len(failed),
                  totalCost |-> TotalCost(successful)]
    /\ UNCHANGED <<options, config, queue, activePromises, raced, lc, successful, failed,
                   fileStatuses, nFileProgress, nBatchProgress, batchProgress, outputDir, hub, priceVars, providerVars>>

\* a reaction that clears the queue on every failure
QueueAfterFailureAlways(q) == <<>>

\* if (stopOnError) queue.length = 0
QueueAfterFailure(q) == IF stopOnError THEN <<>> ELSE q

\* the reaction processFile(file).then(...) of the lifecycle settled first
ThenCallback ==
    /\ pc \in {"await", "returned"} /\ Settled # {}
    /\ LET i == CHOOSE k \in Settled : \A m \in Settled : k <= m IN
       /\ lc' = [lc EXCEPT ![i].stage = "done"]
       /\ IF lc[i].rejected
          THEN \* a rejected processFile skips the reaction and rejects the race
               /\ pc' = IF pc = "await" /\ i \in raced THEN "threw" ELSE pc
               /\ UNCHANGED <<queue, activePromises, successful, failed,
                              nBatchProgress, batchProgress>>
          ELSE /\ pc' = pc
               /\ IF ResultOf(i).error # ""
                  THEN /\ failed' = Append(failed, ResultOf(i))
                       /\ queue' = QueueAfterFailure(queue)
                       /\ UNCHANGED successful
                  ELSE /\ successful' = Append(successful, ResultOf(i))
                       /\ UNCHANGED <<failed, queue>>
               /\ activePromises' = [activePromises EXCEPT ![files[i]] = 0]
               \* updateBatchProgress()
               /\ nBatchProgress' = nBatchProgress + 1
               /\ batchProgress' = BatchProgress(successful', failed')
    /\ UNCHANGED <<options, config, raced, fileStatuses, nFileProgress, outputDir, result, hub, priceVars, providerVars>>

\* the race has settled: renderBatch continues after its await
Resume ==
    /\ pc = "await" /\ Settled = {}
    /\ RaceSettled
    /\ pc' = "loop"
    /\ raced' = {}
    /\ UNCHANGED <<options, config, queue, activePromises, lc, successful, failed,
                   fileStatuses, nFileProgress, nBatchProgress, batchProgress, outputDir, result, hub, priceVars, providerVars>>

\* ------------------------------------------------------------------------
\* Prices: calculatePrice (utils/solana) and RaymentClient.estimateCost.
\* An amount is an integer: the numerator of a fraction of a micro-SOL
\* (10^-6 SOL) with the denominator Den, so that the divisions by 1024 and
\* by 100 are exact and only Math.round loses anything.
\* ------------------------------------------------------------------------
Den == 1024 * 100

TariffValues == -1..MaxPrice
Pricings == [pricePerFrame : TariffValues, pricePerSecond : TariffValues,
             pricePerGb : TariffValues, minimumPrice : TariffValues]
JobInfos == [fileSizeMb : {0, 512}, frameCount : -1..MaxFrames,
             estimatedRenderSeconds : {0, EstimatedSeconds}]
FeePercents == {-DefaultFeePercent, 0, DefaultFeePercent, 50}
PriceArgs == [pricing : Pricings, jobInfo : JobInfos, platformFeePercent : FeePercents]

NoBreakdown == [basePrice |-> 0, fileSizeFee |-> 0, frameFee |-> 0,
                estimatedRenderFee |-> 0, platformFee |-> 0, total |-> 0,
                returned |-> FALSE]

\* Math.max
Max(a, b) == IF a >= b THEN a ELSE b

\* a rounding that cuts the digits off: Math.floor(x * 1000000) / 1000000
RoundDown(x) == (x \div Den) * Den

\* Math.round(x * 1000000) / 1000000: to the nearest micro-SOL, halves up
Round(x) == ((2 * x + Den) \div (2 * Den)) * Den

\* a basePrice that is the subtotal, without the minimum
BasePriceNoMinimum(subtotal, minimumPrice) == subtotal

\* Math.max(subtotal, pricing.minimumPrice)
BasePrice(subtotal, minimumPrice) == Max(subtotal, minimumPrice * Den)

\* a price that rises with every call made
CalculatePriceSurge(pricing, jobInfo, platformFeePercent) ==
    LET fileSizeFee == jobInfo.fileSizeMb * pricing.pricePerGb * (Den \div 1024)
        frameFee == jobInfo.frameCount * pricing.pricePerFrame * Den
        estimatedRenderFee == jobInfo.estimatedRenderSeconds * pricing.pricePerSecond * Den
        subtotal == fileSizeFee + frameFee + estimatedRenderFee
        basePrice == BasePrice(subtotal, pricing.minimumPrice) + priceCalls * Den
        platformFee == (basePrice * platformFeePercent) \div 100
        total == basePrice + platformFee
    IN  [basePrice |-> basePrice, fileSizeFee |-> fileSizeFee, frameFee |-> frameFee,
         estimatedRenderFee |-> estimatedRenderFee, platformFee |-> platformFee,
         total |-> Round(total), returned |-> TRUE]

\* calculatePrice(pricing, jobInfo, platformFeePercent)
CalculatePrice(pricing, jobInfo, platformFeePercent) ==
    LET fileSizeFee == jobInfo.fileSizeMb * pricing.pricePerGb * (Den \div 1024)
        frameFee == jobInfo.frameCount * pricing.pricePerFrame * Den
        estimatedRenderFee == jobInfo.estimatedRenderSeconds * pricing.pricePerSecond * Den
        subtotal == fileSizeFee + frameFee + estimatedRenderFee
        basePrice == BasePrice(subtotal, pricing.minimumPrice)
        platformFee == (basePrice * platformFeePercent) \div 100
        total == basePrice + platformFee
    IN  [basePrice |-> basePrice, fileSizeFee |-> fileSizeFee, frameFee |-> frameFee,
         estimatedRenderFee |-> estimatedRenderFee, platformFee |-> platformFee,
         total |-> Round(total), returned |-> TRUE]

\* the breakdown of estimateCost for a provider's pricing: options.frameCount || 1,
\* 60 seconds, a fee of 0.05 of the base price, and the total as it comes
EstimateCost(pricing, fileSizeMb, frameCount) ==
    LET frames == IF frameCount = 0 THEN 1 ELSE frameCount
        fileSizeFee == fileSizeMb * pricing.pricePerGb * (Den \div 1024)
        frameFee == frames * pricing.pricePerFrame * Den
        estimatedRenderFee == EstimatedSeconds * pricing.pricePerSecond * Den
        subtotal == fileSizeFee + frameFee + estimatedRenderFee
        basePrice == BasePrice(subtotal, pricing.minimumPrice)
        platformFee == (basePrice * 5) \div 100
        total == basePrice + platformFee
    IN  [basePrice |-> basePrice, fileSizeFee |-> fileSizeFee, frameFee |-> frameFee,
         estimatedRenderFee |-> estimatedRenderFee, platformFee |-> platformFee,
         total |-> total, returned |-> TRUE]

\* no price has been asked for
PriceIdle ==
    /\ priceArgs = [pricing |-> [pricePerFrame |-> 0, pricePerSecond |-> 0,
                                 pricePerGb |-> 0, minimumPrice |-> 0],
                    jobInfo |-> [fileSizeMb |-> 0, frameCount |-> 0,
                                 estimatedRenderSeconds |-> 0],
                    platformFeePercent |-> 0]
    /\ priceCalls = 0
    /\ firstBreakdown = NoBreakdown
    /\ breakdown = NoBreakdown
    /\ estimate = NoBreakdown
    /\ estimateError = ""

\* a caller calls calculatePrice with the arguments priceArgs
CalculatePriceCall ==
    /\ priceCalls < MaxPriceCalls
    /\ priceCalls' = priceCalls + 1
    /\ breakdown' = CalculatePrice(priceArgs.pricing, priceArgs.jobInfo,
                                   priceArgs.platformFeePercent)
    /\ firstBreakdown' = IF priceCalls = 0 THEN breakdown' ELSE firstBreakdown
    /\ UNCHANGED <<clientVars, priceArgs, estimate, estimateError, providerVars>>

\* a caller calls estimateCost for the same file and frame count; the hub
\* lists no provider, or its first provider has the pricing of priceArgs
EstimateCostCall ==
    /\ estimate = NoBreakdown /\ estimateError = ""
    /\ \E providers \in BOOLEAN :
          IF providers
          THEN /\ estimate' = EstimateCost(priceArgs.pricing, priceArgs.jobInfo.fileSizeMb,
                                           priceArgs.jobInfo.frameCount)
               /\ UNCHANGED estimateError
          ELSE /\ estimateError' = "No providers available"
               /\ UNCHANGED estimate
    /\ UNCHANGED <<clientVars, priceArgs, priceCalls, firstBreakdown, breakdown,
                   providerVars>>

\* ------------------------------------------------------------------------
\* RaymentProvider: start(), stop() and the WebSocket to the hub.  Every
\* connectWebSocket creates a new socket and a new heartbeat interval; the
\* 'close' handler of every socket arms a timer that connects again.
\* ------------------------------------------------------------------------
\* config.pricing as the constructor received it, and the tariffs setPricing
\* is called with
InitialPricing == "initial"
NewPricings == {"cheap", "dear"}

NotStopped == [sockets |-> -1, heartbeats |-> -1]

\* the provider after its constructor
ProviderIdle ==
    /\ ppc = "constructed"
    /\ sockets = <<>>
    /\ reconnectTimers = 0
    /\ heartbeatTimers = 0
    /\ heartbeats = 0
    /\ hubStatus = "none"
    /\ atStop = NotStopped
    /\ serving = FALSE
    /\ isRendering = FALSE
    /\ jobs = <<>>
    /\ lastReply = "none"
    /\ configPricing = InitialPricing
    /\ pricingCalls = <<>>
    /\ pricingResult = "none"

\* connectWebSocket(): new WebSocket(wsUrl), the handlers, setInterval
ConnectWebSocket ==
    /\ sockets' = Append(sockets, "connecting")
    /\ heartbeatTimers' = heartbeatTimers + 1

\* this.ws?.close()
Close(ss) ==
    IF ss # <<>> /\ ss[Len(ss)] \in {"connecting", "open"}
    THEN [ss EXCEPT ![Len(ss)] = "closing"]
    ELSE ss

\* start() up to its await of register()
Start ==
    /\ ppc = "constructed"
    /\ ppc' = "registering"
    /\ UNCHANGED <<clientVars, priceVars, serving, serverVars, sockets, reconnectTimers, heartbeatTimers,
                   heartbeats, hubStatus, atStop>>

\* POST /provider/register is answered: start() goes on to app.listen
RegisterResponse ==
    /\ ppc = "registering"
    /\ \E ok \in BOOLEAN : ppc' = IF ok THEN "listening" ELSE "startFailed"
    /\ UNCHANGED <<clientVars, priceVars, serving, serverVars, sockets, reconnectTimers, heartbeatTimers,
                   heartbeats, hubStatus, atStop>>

\* the server listens: connectWebSocket(), then setStatus('online') is sent
Listening ==
    /\ ppc = "listening"
    /\ ConnectWebSocket
    /\ ppc' = "goingOnline"
    /\ serving' = TRUE
    /\ UNCHANGED <<clientVars, priceVars, serverVars, reconnectTimers, heartbeats, hubStatus, atStop>>

\* stop() up to its await of setStatus('offline')
Stop ==
    /\ ppc \in {"started", "startFailed"}
    /\ ppc' = "goingOffline"
    /\ UNCHANGED <<clientVars, priceVars, serving, serverVars, sockets, reconnectTimers, heartbeatTimers,
                   heartbeats, hubStatus, atStop>>

\* PUT /provider/status is answered: start() returns, or stop() closes the
\* socket and returns; a rejected request is thrown out of start() / stop()
StatusResponse ==
    /\ ppc \in {"goingOnline", "goingOffline"}
    /\ \E ok \in BOOLEAN :
         IF ppc = "goingOnline"
         THEN /\ ppc' = IF ok THEN "started" ELSE "startFailed"
              /\ hubStatus' = IF ok THEN "online" ELSE hubStatus
              /\ UNCHANGED <<sockets, atStop>>
         ELSE /\ ppc' = IF ok THEN "stopped" ELSE "stopFailed"
              /\ hubStatus' = IF ok THEN "offline" ELSE hubStatus
              /\ sockets' = IF ok THEN Close(sockets) ELSE sockets
              /\ atStop' = IF ok THEN [sockets |-> Len(sockets), heartbeats |-> heartbeats]
                                 ELSE atStop
    /\ UNCHANGED <<clientVars, priceVars, serving, serverVars, reconnectTimers, heartbeatTimers, heartbeats>>

\* ws.on('open'): the auth message is sent
SocketOpen(k) ==
    /\ sockets[k] = "connecting"
    /\ sockets' = [sockets EXCEPT ![k] = "open"]
    /\ UNCHANGED <<clientVars, priceVars, serving, serverVars, ppc, reconnectTimers, heartbeatTimers,
                   heartbeats, hubStatus, atStop>>

\* ws.on('close'), whoever closed the socket: setTimeout(connectWebSocket, 5000)
SocketClose(k) ==
    /\ sockets[k] \in {"connecting", "open", "closing"}
    /\ sockets' = [sockets EXCEPT ![k] = "closed"]
    /\ reconnectTimers' = reconnectTimers + 1
    /\ UNCHANGED <<clientVars, priceVars, serving, serverVars, ppc, heartbeatTimers, heartbeats, hubStatus,
                   atStop>>

\* the 5 s timer of a 'close' handler fires
ReconnectTimer ==
    /\ reconnectTimers > 0
    /\ Len(sockets) < MaxSockets
    /\ ConnectWebSocket
    /\ reconnectTimers' = reconnectTimers - 1
    /\ UNCHANGED <<clientVars, priceVars, serving, serverVars, ppc, heartbeats, hubStatus, atStop>>

\* a 30 s heartbeat interval fires while this.ws is open
HeartbeatTimer ==
    /\ heartbeatTimers > 0
    /\ heartbeats < MaxHeartbeats
    /\ sockets # <<>> /\ sockets[Len(sockets)] = "open"
    /\ heartbeats' = heartbeats + 1
    /\ UNCHANGED <<clientVars, priceVars, serving, serverVars, ppc, sockets, reconnectTimers, heartbeatTimers,
                   hubStatus, atStop>>

\* ------------------------------------------------------------------------
\* The provider's render server and its pricing
\* ------------------------------------------------------------------------

wsVars == <<ppc, sockets, reconnectTimers, heartbeatTimers, heartbeats, hubStatus,
            atStop>>

\* A processRender execution: stage (where it waits: render, sendResult,
\* reportFailure, or ended), dir (its work directory: none, created, removed),
\* render (how the render ended: none, succeeded, failed), sent and reported
\* (whether sendResult / reportFailure has been called).
NewJob ==
    [stage |-> "ended", dir |-> "none", render |-> "none",
     sent |-> FALSE, reported |-> FALSE]

\* what the synchronous start of processRender can run into
SyncOutcomes == {"mkdirFails", "renameFails", "moved"}

\* processRender up to its first await: mkdirSync(jobDir) and
\* renameSync(filePath, inputPath) come before the try; when one of them
\* throws the call is over, otherwise it waits for the render
ProcessRenderStart(sync) ==
    CASE sync = "mkdirFails"  -> NewJob
      [] sync = "renameFails" -> [NewJob EXCEPT !.dir = "created"]
      [] sync = "moved"       -> [NewJob EXCEPT !.dir = "created", !.stage = "render"]

\* the processRender executions that have not ended
Running(js) == {k \in 1..Len(js) : js[k].stage # "ended"}

\* a POST /render handler without the busy check
BusyNever == FALSE

\* if (this.isRendering) return res.status(503)
Busy == isRendering

\* POST /render arrives, with or without a file, with settings that parse or
\* not.  An accepted job sets isRendering and starts processRender; when
\* that throws at once, .catch and .finally run before any other handler.
RenderRequest ==
    /\ serving
    /\ \E file \in BOOLEAN, settings \in BOOLEAN, sync \in SyncOutcomes :
          IF Busy
          THEN /\ lastReply' = "503"
               /\ UNCHANGED <<isRendering, jobs>>
          ELSE IF ~file
          THEN /\ lastReply' = "400"
               /\ UNCHANGED <<isRendering, jobs>>
          ELSE IF ~settings
          THEN /\ lastReply' = "noReply"
               /\ UNCHANGED <<isRendering, jobs>>
          ELSE /\ Len(jobs) < MaxJobs
               /\ lastReply' = "accepted"
               /\ jobs' = Append(jobs, ProcessRenderStart(sync))
               /\ isRendering' = (ProcessRenderStart(sync).stage # "ended")
    /\ UNCHANGED <<clientVars, priceVars, wsVars, serving, configPricing, pricingCalls,
                   pricingResult>>

\* finally { fs.rmSync(jobDir) }, then the .finally of the handler
Finally(k) ==
    /\ jobs' = [jobs EXCEPT ![k].stage = "ended", ![k].dir = "removed"]
    /\ isRendering' = FALSE

\* reportFailure up to its POST /provider/job/:id/failed
ReportFailureCall(k) ==
    /\ jobs' = [jobs EXCEPT ![k].stage = "reportFailure", ![k].reported = TRUE]
    /\ UNCHANGED isRendering

\* the render of job k ends: sendResult when it succeeded, the catch with
\* reportFailure when it threw
RenderDone(k) ==
    /\ jobs[k].stage = "render"
    /\ \E ok \in BOOLEAN :
          IF ok
          THEN /\ jobs' = [jobs EXCEPT ![k].stage = "sendResult",
                                       ![k].render = "succeeded", ![k].sent = TRUE]
               /\ UNCHANGED isRendering
          ELSE /\ jobs' = [jobs EXCEPT ![k].stage = "reportFailure",
                                       ![k].render = "failed", ![k].reported = TRUE]
               /\ UNCHANGED isRendering
    /\ UNCHANGED <<clientVars, priceVars, wsVars, serving, lastReply, configPricing,
                   pricingCalls, pricingResult>>

\* POST /provider/job/:id/complete is answered: a rejected upload is thrown
\* inside the try and caught like a failed render
SendResultResponse(k) ==
    /\ jobs[k].stage = "sendResult"
    /\ \E ok \in BOOLEAN : IF ok THEN Finally(k) ELSE ReportFailureCall(k)
    /\ UNCHANGED <<clientVars, priceVars, wsVars, serving, lastReply, configPricing,
                   pricingCalls, pricingResult>>

\* POST /provider/job/:id/failed is answered or rejected: in both cases the
\* finally runs (a rejection leaves processRender and is logged by .catch)
ReportFailureResponse(k) ==
    /\ jobs[k].stage = "reportFailure"
    /\ Finally(k)
    /\ UNCHANGED <<clientVars, priceVars, wsVars, serving, lastReply, configPricing,
                   pricingCalls, pricingResult>>

\* what GET /health answers
Health == [status |-> "ok", isRendering |-> isRendering, pricing |-> configPricing]

RemoveAt(q, k) == SubSeq(q, 1, k - 1) \o SubSeq(q, k + 1, Len(q))

\* a setPricing that stores the tariff before the hub has answered
SetPricingAssignsFirst(p) ==
    /\ Len(pricingCalls) < MaxPricingCalls
    /\ pricingCalls' = Append(pricingCalls, p)
    /\ configPricing' = p
    /\ UNCHANGED <<clientVars, priceVars, wsVars, serving, isRendering, jobs,
                   lastReply, pricingResult>>

\* setPricing(p) up to its await of PUT /provider/pricing
SetPricing(p) ==
    /\ Len(pricingCalls) < MaxPricingCalls
    /\ pricingCalls' = Append(pricingCalls, p)
    /\ UNCHANGED <<clientVars, priceVars, wsVars, serving, isRendering, jobs,
                   lastReply, configPricing, pricingResult>>

\* PUT /provider/pricing of call k is answered: this.config.pricing = pricing
\* and setPricing returns; a rejected request is thrown out of setPricing
PricingResponse(k) ==
    /\ \E ok \in BOOLEAN :
          /\ configPricing' = IF ok THEN pricingCalls[k] ELSE configPricing
          /\ pricingResult' = IF ok THEN "resolved" ELSE "rejected"
    /\ pricingCalls' = RemoveAt(pricingCalls, k)
    /\ UNCHANGED <<clientVars, priceVars, wsVars, serving, isRendering, jobs,
                   lastReply>>

\* ------------------------------------------------------------------------
\* Specifications
\* ------------------------------------------------------------------------

\* the client before a call, no batch and no job
ClientIdle ==
    /\ ClientInit
    /\ ~options.given
    /\ config = [wallet |-> FALSE, privateKey |-> FALSE, autoRetry |-> FALSE]
    /\ hub = "any"

Init == ClientInit /\ PriceIdle /\ ProviderIdle

Next ==
    \/ Render
    \/ RenderBatch
    \/ StartTask
    \/ AwaitRace
    \/ Spin
    \/ Return
    \/ ThenCallback
    \/ Resume
    \/ \E i \in 1..N : SubmitResponse(i)
    \/ \E i \in 1..N : PaymentResponse(i)
    \/ \E i \in 1..N : ConfirmResponse(i)
    \/ \E i \in 1..N : PollResponse(i)
    \/ \E i \in 1..N : PollTimer(i)
    \/ \E i \in 1..N : DownloadResponse(i)

Spec == Init /\ [][Next]_vars

\* calculatePrice and estimateCost, for every argument of PriceArgs
PriceInit ==
    /\ ClientIdle
    /\ priceArgs \in PriceArgs
    /\ priceCalls = 0
    /\ firstBreakdown = NoBreakdown
    /\ breakdown = NoBreakdown
    /\ estimate = NoBreakdown
    /\ estimateError = ""
    /\ ProviderIdle

PriceNext ==
    \/ CalculatePriceCall
    \/ EstimateCostCall

PriceSpec == PriceInit /\ [][PriceNext]_vars

\* a provider from its construction on
ProviderInit == ClientIdle /\ PriceIdle /\ ProviderIdle

ProviderNext ==
    \/ Start
    \/ RegisterResponse
    \/ Listening
    \/ StatusResponse
    \/ Stop
    \/ \E k \in 1..Len(sockets) : SocketOpen(k)
    \/ \E k \in 1..Len(sockets) : SocketClose(k)
    \/ ReconnectTimer
    \/ HeartbeatTimer

ProviderSpec == ProviderInit /\ [][ProviderNext]_vars

\* the render server and the pricing of a provider that is started
ServerInit == ClientIdle /\ PriceIdle /\ ProviderIdle

ServerNext ==
    \/ Start
    \/ RegisterResponse
    \/ Listening
    \/ RenderRequest
    \/ \E k \in 1..Len(jobs) : RenderDone(k)
    \/ \E k \in 1..Len(jobs) : SendResultResponse(k)
    \/ \E k \in 1..Len(jobs) : ReportFailureResponse(k)
    \/ \E p \in NewPricings : SetPricing(p)
    \/ \E k \in 1..Len(pricingCalls) : PricingResponse(k)

ServerSpec == ServerInit /\ [][ServerNext]_vars

\* the render ends and the hub answers (or the request fails)
FairServerSpec ==
    /\ ServerSpec
    /\ \A k \in 1..MaxJobs :
          /\ WF_vars(k \in 1..Len(jobs) /\ RenderDone(k))
          /\ WF_vars(k \in 1..Len(jobs) /\ SendResultResponse(k))
          /\ WF_vars(k \in 1..Len(jobs) /\ ReportFailureResponse(k))

\* ------------------------------------------------------------------------
\* Properties
\* ------------------------------------------------------------------------

\* the positions renderBatch may be at
BatchPcs == {"loop", "await", "returned", "threw"}

\* processFile calls that have started and not yet returned
InFlight == {i \in 1..N : lc[i].stage \notin {"pending", "settled", "done"}}

\* positions recorded in successful / in failed
InSuccessful == {successful[k].file : k \in 1..Len(successful)}
InFailed == {failed[k].file : k \in 1..Len(failed)}

Distinct == \A i, j \in 1..N : files[i] = files[j] => i = j

\* C1: with concurrency = N >= 1, at no point of renderBatch are more than N
\* per-file lifecycles in flight, for every input list (entries may repeat).
C1_ConcurrencyCeiling ==
    (pc \in BatchPcs /\ concurrency >= 1) => Cardinality(InFlight) <= concurrency

\* C2: when renderBatch returns, every input is in exactly one of successful
\* and failed, so stats.completed + stats.failed = stats.total, for either
\* value of stopOnError.
C2_ResultPartitionsInputs ==
    pc = "returned" =>
        /\ result.completed + result.failed = result.total
        /\ \A i \in 1..N : (i \in InSuccessful) # (i \in InFailed)

\* C3: with stopOnError, once a failure is recorded no new lifecycle is
\* started (the queue is empty from then on), and renderBatch returns only
\* when every lifecycle it started has finished and is counted in the result.
C3_StopOnErrorDrains ==
    (pc \in BatchPcs /\ stopOnError) =>
        /\ failed # <<>> => queue = <<>>
        /\ pc = "returned" =>
              /\ \A i \in 1..N : lc[i].stage \in {"pending", "done"}
              /\ result.completed + result.failed
                    = Cardinality({i \in 1..N : lc[i].stage # "pending"})

\* C4: renderBatch called with concurrency <= 0 (and a non-empty list) fails
\* with an error before anything is started; it neither works nor hangs.
C4_RejectsNonPositiveConcurrency ==
    (pc \in BatchPcs /\ concurrency <= 0) =>
        /\ pc = "threw"
        /\ \A i \in 1..N : lc[i].stage = "pending"
        /\ nFileProgress = 0 /\ nBatchProgress = 0

\* C5: renderBatch called with an empty or missing list fails before any
\* lifecycle starts, before any callback and before the output directory is
\* created, and returns no result.
C5_EmptyBatchRejected ==
    (pc \in BatchPcs /\ (~options.given \/ Len(options.files) = 0)) =>
        /\ pc = "threw"
        /\ ~outputDir
        /\ nFileProgress = 0 /\ nBatchProgress = 0
        /\ queue = <<>> /\ Size(activePromises) = 0
        /\ \A i \in 1..N : lc[i].stage = "pending"
        /\ result = NoResult

C5_Witness == pc = "threw" /\ options.given /\ Len(options.files) = 0

\* C6: once the input validation has passed renderBatch never throws: the
\* error of every failing step of every lifecycle ends in that job's failed
\* entry, and a batch that returns has recorded the lifecycles that failed.
C6_FailuresCollected ==
    /\ pc = "threw" => (~options.given \/ Len(options.files) = 0)
    /\ pc \in BatchPcs =>
          \A i \in 1..N :
             /\ ~lc[i].rejected
             /\ (lc[i].stage = "done" /\ lc[i].error # "") =>
                   \E k \in 1..Len(failed) :
                      failed[k].file = i /\ failed[k].error = lc[i].error

C6_Witness ==
    /\ pc = "returned" /\ N = 1
    /\ Len(failed) = 1 /\ failed[1].error = "Download failed"

\* C7: with stopOnError = false a failure takes no pending input away and
\* changes no other job's outcome: the queue holds exactly the inputs not
\* yet started, each finished job is recorded by its own outcome only, and
\* a batch of distinct inputs returns with every input attempted and counted.
C7_FailureIsolation ==
    (pc \in BatchPcs \ {"threw"} /\ ~stopOnError) =>
        /\ \A i \in 1..N :
              /\ (lc[i].stage = "pending") = (\E k \in 1..Len(queue) : queue[k] = i)
              /\ lc[i].stage = "done" =>
                    /\ (i \in InSuccessful) = (lc[i].error = "")
                    /\ (i \in InFailed) = (lc[i].error # "")
        /\ pc = "returned" =>
              /\ \A i \in 1..N : lc[i].stage # "pending"
              /\ Distinct =>
                    /\ result.completed = Cardinality({i \in 1..N : lc[i].error = ""})
                    /\ result.failed = Cardinality({i \in 1..N : lc[i].error # ""})
                    /\ result.completed + result.failed = N

\* 3 distinct inputs at concurrency 3, the second rejected at confirmation
C7_Witness ==
    /\ pc = "returned" /\ ~stopOnError /\ N = 3 /\ concurrency = 3 /\ Distinct
    /\ lc[2].last = "rejected"
    /\ result.completed = 2 /\ result.failed = 1

\* the calls of one lifecycle follow submit, sendPayment, confirm, poll..., fetch
InOrder(calls) ==
    \A k \in 1..Len(calls) :
        CASE k = 1 -> calls[k] = "submit"
          [] k = 2 -> calls[k] = "sendPayment"
          [] k = 3 -> calls[k] = "confirm"
          [] k = 4 -> calls[k] = "poll"
          [] OTHER -> /\ calls[k] \in {"poll", "fetch"}
                      /\ calls[k - 1] = "poll"

\* C8: within one lifecycle (render and processFile) the external calls are
\* issued in the order submit, sendPayment, confirm, poll (repeated), fetch,
\* each only after the previous one returned successfully; no poll and no
\* fetch is issued before the hub has accepted the payment confirmation, and
\* the fetch follows a poll that reported completed.
C8_CallOrder ==
    \A i \in 1..N :
        LET l == lc[i] IN
        /\ InOrder(l.calls)
        /\ l.returned >= Len(l.calls) - 1
        /\ l.returned <= Len(l.calls)
        /\ Len(l.calls) >= 4 => l.returned >= 3
        /\ Count(l.calls, "fetch") <= 1
        /\ (l.calls # <<>> /\ l.calls[Len(l.calls)] = "fetch") =>
               l.last \in {"completed", "bytes", "downloadError"}

C8_Witness ==
    \E i \in 1..N :
        /\ lc[i].calls = <<"submit", "sendPayment", "confirm", "poll", "poll", "fetch">>
        /\ lc[i].last = "bytes"

\* C9: a job whose payment confirmation the hub rejects ends failed with the
\* rejection reason (the hub's, or the default one); sendPayment and the
\* confirmation were each called once and no poll or fetch follows.
C9_RejectedPaymentFails ==
    \A i \in 1..N :
        lc[i].last \in {"rejected", "rejectedNoReason"} =>
            /\ lc[i].stage \in {"settled", "done"}
            /\ lc[i].error = IF lc[i].last = "rejected" THEN "Invalid payment"
                             ELSE "Payment confirmation failed"
            /\ lc[i].calls = <<"submit", "sendPayment", "confirm">>
            /\ (pc \in BatchPcs /\ lc[i].stage = "done") =>
                   i \in InFailed /\ i \notin InSuccessful
            /\ pc \notin {"render", "renderReturned"}

C9_Witness ==
    \E i \in 1..N :
        /\ lc[i].last = "rejectedNoReason" /\ lc[i].stage = "done"
        /\ pc = "returned" /\ i \in InFailed

\* C10: in one lifecycle requestRender and sendPayment are each called at
\* most once; an error of either ends the job at once as failed, with no
\* further external call, whatever config.autoRetry is.
C10_NoResubmitNoRepay ==
    \A i \in 1..N :
        /\ Count(lc[i].calls, "submit") <= 1
        /\ Count(lc[i].calls, "sendPayment") <= 1
        /\ lc[i].last \in {"200", "submitError"} =>
              /\ lc[i].calls = <<"submit">>
              /\ lc[i].stage \in {"settled", "done"} /\ lc[i].error # ""
        /\ lc[i].last = "paymentError" =>
              /\ lc[i].calls = <<"submit", "sendPayment">>
              /\ lc[i].stage \in {"settled", "done"} /\ lc[i].error # ""

C10_Witness ==
    \E i \in 1..N :
        /\ config.autoRetry /\ lc[i].last = "submitError"
        /\ lc[i].stage = "done" /\ i \in InFailed

\* C11: the quote's expiresAt is checked before sendPayment: for a quote
\* that has expired payForRender fails and sendPayment is never called.
C11_ExpiredQuoteNotPaid ==
    \A i \in 1..N :
        lc[i].last = "402expired" =>
            /\ Count(lc[i].calls, "sendPayment") = 0
            /\ lc[i].stage \in {"settled", "done"} /\ lc[i].error # ""

\* C17: requestRender returns a quote only for a 402 answer; a 2xx answer,
\* another error status and a network error make it fail, and the lifecycle
\* ends there: no payment and no other call follows.
C17_QuoteOnlyOn402 ==
    \A i \in 1..N :
        /\ lc[i].last \in {"200", "500", "submitError"} =>
              /\ lc[i].returned = 0
              /\ lc[i].calls = <<"submit">>
              /\ lc[i].stage \in {"settled", "done"}
              /\ lc[i].error = CASE lc[i].last = "200" -> "Expected 402 response"
                                 [] lc[i].last = "500" ->
                                        "Request failed with status code 500"
                                 [] OTHER -> "Network Error"
              /\ pc \notin {"render", "renderReturned"}
        /\ lc[i].stage = "requestRender" => lc[i].calls = <<"submit">>
        /\ Len(lc[i].calls) >= 2 => lc[i].returned >= 1

C17_Witness ==
    \E i \in 1..N :
        /\ lc[i].last = "200" /\ lc[i].stage = "done"
        /\ pc = "returned" /\ i \in InFailed

\* C12: polling stops as soon as a terminal status (completed, failed or
\* cancelled) has been observed: no further getJobStatus call is made.
C12_PollingStopsAtTerminal ==
    [][\A i \in 1..N :
          lc[i].last \in {"completed", "failed", "cancelled"} =>
              Count(lc'[i].calls, "poll") = Count(lc[i].calls, "poll")]_vars

\* C13: the deadline of a job runs from its submission: a job that is still
\* not terminal when the timeout has passed since the submission is failed
\* with the timeout error.
C13_DeadlineFromSubmission ==
    \A i \in 1..N :
        (lc[i].last \in {"queued", "rendering"} /\ lc[i].elapsed # "within") =>
            /\ lc[i].stage \in {"settled", "done"}
            /\ lc[i].error = "Timeout waiting for render"

\* C14: a status request that fails is retried; the lifecycle fails only
\* after the retries, with the reason 'status check exhausted retries'.
C14_PollErrorRetried ==
    \A i \in 1..N :
        (lc[i].last = "pollError" /\ lc[i].stage \in {"settled", "done"}) =>
            /\ Count(lc[i].calls, "poll") >= 2
            /\ lc[i].error = "status check exhausted retries"

\* C15: a job that completed and whose download fails is reported as
\* completed, with the download error in its record, and not as failed.
C15_DownloadFailureStaysCompleted ==
    \A i \in 1..N :
        (pc \in BatchPcs /\ lc[i].last = "downloadError" /\ lc[i].stage = "done") =>
            /\ lc[i].error # ""
            /\ i \in InSuccessful /\ i \notin InFailed
            /\ fileStatuses[files[i]] = "completed"

\* C16: when a poll reports the job failed, the lifecycle ends failed with
\* the hub's reason in its error, the result is never fetched and no call
\* is issued again.
C16_RemoteFailureFails ==
    \A i \in 1..N :
        lc[i].last = "failed" =>
            /\ lc[i].stage \in {"settled", "done"}
            /\ lc[i].error = "Render failed: " \o JobError
            /\ Count(lc[i].calls, "fetch") = 0
            /\ Count(lc[i].calls, "submit") = 1
            /\ Count(lc[i].calls, "sendPayment") = 1
            /\ Count(lc[i].calls, "confirm") = 1
            /\ lc[i].calls[Len(lc[i].calls)] = "poll"
            /\ (pc \in BatchPcs /\ lc[i].stage = "done") =>
                   i \in InFailed /\ i \notin InSuccessful

C16_Witness ==
    \E i \in 1..N :
        /\ lc[i].last = "failed" /\ lc[i].stage = "done"
        /\ Count(lc[i].calls, "poll") = 2
        /\ pc = "returned" /\ result.failed = 1

\* C18: lifecycles are started in the order of the inputs: an input is
\* started only when every input before it in the list has been started,
\* whatever the order in which they finish.
C18_StartsInInsertionOrder ==
    /\ \A i, j \in 1..N :
          (i < j /\ lc[j].stage # "pending") => lc[i].stage # "pending"
    /\ \A k \in 1..Len(queue) : queue[k] = N - Len(queue) + k

C18_Witness ==
    /\ N = 3 /\ pc = "await"
    /\ lc[1].stage \in {"requestRender", "sendPayment", "confirm", "poll", "download"}
    /\ lc[2].stage = "done"
    /\ lc[3].stage # "pending"

\* C19: the scheduler never lets time pass waiting for a completion while
\* fewer than `concurrency` lifecycles are in flight and the queue holds work:
\* after a lifecycle finishes, the next input is started before any further
\* response is awaited.
C19_RefillsBeforeWaiting ==
    [][(/\ pc = "await" /\ pc' = "await"
        /\ \E i \in InFlight : lc'[i].stage # lc[i].stage)
         => ~(queue # <<>> /\ Cardinality(InFlight) < concurrency)]_vars

C19_Witness ==
    /\ pc = "loop" /\ queue # <<>> /\ ~stopOnError
    /\ \E i \in 1..N : lc[i].stage = "done"
    /\ InFlight # {} /\ Cardinality(InFlight) < concurrency
    /\ Size(activePromises) < concurrency

\* C20: no two lifecycles that run at the same time write the same key of the
\* status map and of the in-flight table, also when a path is repeated.
C20_OwnKeyOnly ==
    \A i, j \in InFlight : i # j => files[i] # files[j]

\* C21: every snapshot passed to onBatchProgress has total = the number of
\* inputs, completed and failed = the number of lifecycles recorded as
\* succeeded and as failed, inProgress = total - completed - failed, and
\* 0 <= inProgress <= total.
C21_SnapshotArithmetic ==
    batchProgress # NoProgress =>
        /\ batchProgress.total = N
        /\ batchProgress.completed = Len(successful)
        /\ batchProgress.failed = Len(failed)
        /\ batchProgress.inProgress =
              batchProgress.total - batchProgress.completed - batchProgress.failed
        /\ 0 <= batchProgress.inProgress
        /\ batchProgress.inProgress <= batchProgress.total

C21_Witness ==
    /\ N = 3
    /\ batchProgress.completed = 1 /\ batchProgress.failed = 1
    /\ batchProgress.inProgress = 1

\* the sum of the quoted prices of the jobs at the positions of S
RECURSIVE SumPrices(_)
SumPrices(S) ==
    IF S = {} THEN 0
    ELSE LET i == CHOOSE k \in S : TRUE IN QuotedPrice(i) + SumPrices(S \ {i})

\* jobs that ended failed before their payment was sent successfully
FailedBeforePayment ==
    {i \in 1..N : lc[i].stage = "done" /\ lc[i].error # "" /\ lc[i].returned <= 1}

\* C22: totalCost, in every snapshot and in the result, is the sum of the
\* prices of jobs that were quoted and paid; a job that failed before its
\* payment (missing file, failed submission, failed sendPayment) adds nothing.
C22_TotalCostOfPaidJobs ==
    /\ \A i \in InSuccessful :
          /\ lc[i].returned >= 3
          /\ Count(lc[i].calls, "sendPayment") = 1 /\ Count(lc[i].calls, "confirm") = 1
    /\ FailedBeforePayment \cap InSuccessful = {}
    /\ batchProgress # NoProgress =>
          batchProgress.totalCost = SumPrices(InSuccessful)
    \* the result sums the jobs that had succeeded when renderBatch returned
    /\ pc = "returned" =>
          \E S \in SUBSET InSuccessful :
              /\ Cardinality(S) = result.completed
              /\ result.totalCost = SumPrices(S)

C22_Witness ==
    /\ pc = "returned" /\ N = 3
    /\ Cardinality(FailedBeforePayment) = 1
    /\ Cardinality(InSuccessful) = 2
    /\ result.totalCost = SumPrices(InSuccessful) /\ result.totalCost > 0
    /\ batchProgress.totalCost = result.totalCost

\* C23: onBatchProgress is invoked after every status change of a job: every
\* updateFileStatus is followed at once by a snapshot.
C23_SnapshotAfterEveryStatusChange ==
    pc \in BatchPcs => nBatchProgress >= nFileProgress

\* the arguments of the price are all non-negative
NonNegativeArgs ==
    /\ priceArgs.pricing.pricePerFrame >= 0 /\ priceArgs.pricing.pricePerSecond >= 0
    /\ priceArgs.pricing.pricePerGb >= 0 /\ priceArgs.pricing.minimumPrice >= 0
    /\ priceArgs.jobInfo.fileSizeMb >= 0 /\ priceArgs.jobInfo.frameCount >= 0
    /\ priceArgs.jobInfo.estimatedRenderSeconds >= 0
    /\ priceArgs.platformFeePercent >= 0

\* the subtotal of the fees of the latest breakdown
Subtotal == breakdown.fileSizeFee + breakdown.frameFee + breakdown.estimatedRenderFee

\* C24: for non-negative arguments the total of calculatePrice, after its
\* rounding, is at least minimumPrice * (1 + platformFeePercent / 100).
C24_TotalAtLeastMinimum ==
    (breakdown.returned /\ NonNegativeArgs) =>
        breakdown.total * 100 >=
            priceArgs.pricing.minimumPrice * Den * (100 + priceArgs.platformFeePercent)

\* C25: basePrice is the larger of the subtotal of the three fees and the
\* minimum price, and platformFee is basePrice * platformFeePercent / 100.
C25_BasePriceIsFlooredSubtotal ==
    breakdown.returned =>
        /\ breakdown.basePrice = IF Subtotal < priceArgs.pricing.minimumPrice * Den
                                 THEN priceArgs.pricing.minimumPrice * Den
                                 ELSE Subtotal
        /\ breakdown.platformFee * 100 = breakdown.basePrice * priceArgs.platformFeePercent

C25_Witness ==
    /\ breakdown.returned /\ NonNegativeArgs
    /\ Subtotal > 0 /\ Subtotal < priceArgs.pricing.minimumPrice * Den
    /\ breakdown.basePrice = priceArgs.pricing.minimumPrice * Den
    /\ breakdown.platformFee > 0

\* C26: no field of the breakdown of calculatePrice is negative, whatever
\* the arguments.
C26_NoNegativeField ==
    breakdown.returned =>
        /\ breakdown.fileSizeFee >= 0 /\ breakdown.frameFee >= 0
        /\ breakdown.estimatedRenderFee >= 0 /\ breakdown.basePrice >= 0
        /\ breakdown.platformFee >= 0 /\ breakdown.total >= 0

\* C27: total is basePrice + platformFee rounded to a whole number of
\* micro-SOL, at most half a micro-SOL away from it; the other fields are
\* the exact products.
C27_RoundedOnceOnTotal ==
    breakdown.returned =>
        /\ breakdown.total % Den = 0
        /\ 2 * (breakdown.total - (breakdown.basePrice + breakdown.platformFee)) <= Den
        /\ 2 * ((breakdown.basePrice + breakdown.platformFee) - breakdown.total) <= Den
        /\ breakdown.fileSizeFee * 1024 =
              priceArgs.jobInfo.fileSizeMb * priceArgs.pricing.pricePerGb * Den
        /\ breakdown.frameFee =
              priceArgs.jobInfo.frameCount * priceArgs.pricing.pricePerFrame * Den
        /\ breakdown.estimatedRenderFee =
              priceArgs.jobInfo.estimatedRenderSeconds * priceArgs.pricing.pricePerSecond * Den
        /\ breakdown.basePrice \in {Subtotal, priceArgs.pricing.minimumPrice * Den}
        /\ breakdown.platformFee * 100 = breakdown.basePrice * priceArgs.platformFeePercent

C27_Witness ==
    /\ breakdown.returned /\ NonNegativeArgs
    /\ breakdown.fileSizeFee % Den # 0 /\ breakdown.platformFee % Den # 0
    /\ breakdown.total > breakdown.basePrice + breakdown.platformFee

\* C28: for the same pricing, file size and frame count, the breakdown of
\* estimateCost equals calculatePrice(pricing, {fileSizeMb, frameCount,
\* estimatedRenderSeconds: 60}, 5) in every field.
C28_EstimateEqualsCalculatePrice ==
    (/\ breakdown.returned /\ estimate.returned
     /\ priceArgs.jobInfo.estimatedRenderSeconds = EstimatedSeconds
     /\ priceArgs.platformFeePercent = DefaultFeePercent)
        => estimate = breakdown

C30_StoppedStaysStopped ==
    ppc = "stopped" =>
        /\ Len(sockets) = atStop.sockets
        /\ heartbeats = atStop.heartbeats

\* C31: renderBatch returns only when the queue is empty and no lifecycle
\* it started is still running (and, the calls all being answered, it does
\* return).
C31_ReturnsOnlyWhenAllDone ==
    (pc = "returned" /\ concurrency >= 1 /\ N >= 1) =>
        /\ queue = <<>>
        /\ InFlight = {}

\* every handler that can run does run: the answers arrive, the timers fire
FairSpec == Spec /\ WF_vars(Next)

\* the liveness half of the same claim: a batch that has entered the
\* scheduling loop with concurrency >= 1 returns (holds under FairSpec)
EventuallyReturns == (pc = "loop" /\ concurrency >= 1) ~> (pc = "returned")

\* jobs whose sendPayment has succeeded
Paid == {i \in 1..N : lc[i].returned >= 2}

\* C32: the totalCost of the result is the amount paid out during the batch:
\* the sum of the quoted prices of every job whose sendPayment succeeded,
\* the jobs that failed after their payment included.
C32_TotalCostIsAmountPaid ==
    (pc = "returned" /\ InFlight = {} /\ Settled = {}) =>
        result.totalCost = SumPrices(Paid)

\* BatchFileStatus.status in the order of a successful lifecycle
StatusOrder ==
    <<"pending", "uploading", "paying", "rendering", "downloading", "completed">>

StatusRank(st) == CHOOSE k \in 1..Len(StatusOrder) : StatusOrder[k] = st

TerminalStatuses == {"completed", "failed"}

\* status b may be reported next after status a
Follows(a, b) ==
    /\ a \notin TerminalStatuses
    /\ \/ b = "failed"
       \/ /\ b \in {StatusOrder[k] : k \in 1..Len(StatusOrder)}
          /\ \/ StatusRank(b) = StatusRank(a) + 1
             \/ a = "rendering" /\ b = "rendering"

StatusesInOrder(u) == \A k \in 1..Len(u) - 1 : Follows(u[k], u[k + 1])

\* the updateFileStatus calls lifecycle i can make in its next handler, one
\* sequence per answer the handler can receive
NextUpdates(i) ==
    CASE lc[i].stage = "pending" ->
            {ProcessFileStart(lc[i], exists).u : exists \in BOOLEAN}
      [] lc[i].stage = "requestRender" ->
            {AfterSubmit(lc[i], reply).u : reply \in SubmitReplies}
      [] lc[i].stage = "sendPayment" ->
            {AfterPayment(lc[i], reply).u : reply \in PaymentReplies}
      [] lc[i].stage = "confirm" ->
            {AfterConfirm(lc[i], reply).u : reply \in ConfirmReplies}
      [] lc[i].stage = "poll" ->
            {AfterPoll(lc[i], reply, Clocks[k]).u :
                reply \in PollReplies, k \in 1..Len(Clocks)}
      [] lc[i].stage = "sleep" -> {AfterSleep(lc[i]).u}
      [] lc[i].stage = "download" ->
            {AfterDownload(lc[i], reply).u : reply \in DownloadReplies}
      [] OTHER -> {}

\* C33: for distinct inputs the statuses reported for one file follow the order
\* pending, uploading, paying, rendering (repeated per poll), downloading,
\* completed, with failed possible from any status that is not terminal; once
\* completed or failed is reported the lifecycle has ended and reports no more.
C33_StatusOrder ==
    (pc \in {"loop", "await", "returned"} /\ Distinct) =>
        \A i \in 1..N :
            /\ fileStatuses[files[i]] \in TerminalStatuses
                    => lc[i].stage \in {"settled", "done"}
            /\ lc[i].stage \in {"settled", "done"}
                    => fileStatuses[files[i]] \in TerminalStatuses
            /\ \A u \in NextUpdates(i) : StatusesInOrder(<<fileStatuses[files[i]]>> \o u)

\* a file of a batch of distinct files was reported rendering for two polls
\* and then downloading and completed
C33_Witness ==
    /\ pc = "returned" /\ Distinct
    /\ \E i \in 1..N :
          /\ fileStatuses[files[i]] = "completed"
          /\ Count(lc[i].calls, "poll") >= 2

\* lifecycles that ended at the existence check of processFile
FileNotFound(l) == {i \in 1..N : l[i].error = "File not found"}

\* C34: an input whose file does not exist ends in failed with 'File not found'
\* and without an external call (no submission, no payment, no poll); the only
\* status reported for it is failed, straight after pending, and it is never
\* among the successful results whose cost is summed.
C34_MissingFileFailsDirectly ==
    [][\A i \in FileNotFound(lc') :
          /\ lc'[i].calls = <<>> /\ lc'[i].returned = 0
          /\ lc'[i].stage \in {"settled", "done"}
          /\ i \notin {successful'[k].file : k \in 1..Len(successful')}
          /\ lc'[i].stage = "done"
                => i \in {failed'[k].file : k \in 1..Len(failed')}
          /\ i \notin FileNotFound(lc) =>
                /\ lc[i].stage = "pending"
                /\ fileStatuses'[files[i]] = "failed"
                /\ nFileProgress' = nFileProgress + 1
                /\ Distinct => fileStatuses[files[i]] = "pending"]_vars

\* a batch has returned in which one file was missing and another completed
C34_Witness ==
    /\ pc = "returned" /\ N >= 2
    /\ \E i, j \in 1..N :
          /\ i \in FileNotFound(lc) /\ i \in InFailed
          /\ fileStatuses[files[i]] = "failed"
          /\ j \in InSuccessful

\* the statuses after which a job does not change (JobStatus)
TerminalJobStatuses == {"completed", "failed", "cancelled"}

\* the poll result is looked at before the clock, with 'completed' and
\* 'failed' the statuses the code treats as final: whatever the clock shows, a
\* completed job is returned and a failed job throws the render error, and the
\* timeout is thrown only after a poll that returned another status
PollResultBeforeClock ==
    \A i \in 1..N :
        /\ lc[i].last = "completed" => lc[i].error = ""
        /\ lc[i].last = "failed" => lc[i].error = "Render failed: " \o JobError
        /\ lc[i].error = "Timeout waiting for render" =>
              /\ Count(lc[i].calls, "poll") >= 1
              /\ lc[i].last \in JobStatuses \ {"completed", "failed"}

\* C35: waitForCompletion polls at least once and looks at the poll result
\* before the deadline: a completed job is returned and a failed job fails with
\* the render error even when the timeout has elapsed, and the timeout error
\* follows only a poll that returned a status that is not terminal.
C35_PollBeforeDeadline ==
    \A i \in 1..N :
        /\ lc[i].last = "completed" => lc[i].error = ""
        /\ lc[i].last = "failed" => lc[i].error = "Render failed: " \o JobError
        /\ lc[i].error = "Timeout waiting for render" =>
              /\ Count(lc[i].calls, "poll") >= 1
              /\ lc[i].last \in JobStatuses \ TerminalJobStatuses

\* C36: the provider runs at most one render job at a time: a POST /render
\* that arrives while isRendering is true is answered 503 and starts no
\* processRender, and two processRender executions never overlap.
C36_OneJobAtATime ==
    [][/\ Cardinality(Running(jobs')) <= 1
       /\ isRendering => Len(jobs') = Len(jobs)
       /\ (isRendering /\ lastReply' # lastReply) => lastReply' = "503"]_vars

\* a first job has ended, a second is running, and a request that arrived
\* meanwhile was answered 503
C36_Witness ==
    /\ Len(jobs) = 2 /\ jobs[1].stage = "ended" /\ jobs[2].stage # "ended"
    /\ isRendering /\ lastReply = "503"

\* C37: after every accepted job isRendering returns to false (render
\* succeeded or failed, moving the input failed, reporting failed), and the
\* job's work directory is removed whenever it was created.
C37_NeverStuckNothingLeft ==
    /\ Running(jobs) = {} => ~isRendering
    /\ \A k \in 1..Len(jobs) : jobs[k].stage = "ended" => jobs[k].dir # "created"

\* the liveness half of the same claim: a busy provider becomes free again
\* (holds under FairServerSpec)
BusyEnds == isRendering ~> ~isRendering

\* C38: for every accepted job exactly one terminal report is attempted:
\* sendResult only when the render succeeded, reportFailure only when it
\* failed, never both, and one of them by the time the job has ended.
C38_ExactlyOneReport ==
    \A k \in 1..Len(jobs) :
        /\ jobs[k].sent => jobs[k].render = "succeeded"
        /\ jobs[k].reported => jobs[k].render = "failed"
        /\ ~(jobs[k].sent /\ jobs[k].reported)
        /\ jobs[k].stage = "ended" => (jobs[k].sent \/ jobs[k].reported)

\* the WebSockets that are open
OpenSockets == {k \in 1..Len(sockets) : sockets[k] = "open"}

\* at most one WebSocket is open at any time
OneOpenSocket == Cardinality(OpenSockets) <= 1

\* C39: across disconnect / reconnect cycles the provider has at most one open
\* WebSocket and at most one running heartbeat timer.
C39_OneSocketOneHeartbeat ==
    /\ Cardinality(OpenSockets) <= 1
    /\ heartbeatTimers <= 1

\* C40: the pricing served by /health changes only when the hub has accepted a
\* setPricing call, and then to the tariff of that call; when the PUT fails
\* setPricing fails and the pricing stays as it was.
C40_PricingAfterAcceptance ==
    [][/\ Health'.pricing # Health.pricing =>
             /\ Len(pricingCalls') < Len(pricingCalls)
             /\ pricingResult' = "resolved"
             /\ \E k \in 1..Len(pricingCalls) : pricingCalls[k] = Health'.pricing
       /\ (Len(pricingCalls') < Len(pricingCalls) /\ pricingResult' = "rejected") =>
             Health'.pricing = Health.pricing]_vars

\* one setPricing was accepted and a later one was rejected: /health serves
\* the accepted tariff
C40_Witness ==
    /\ pricingCalls = <<>> /\ pricingResult = "rejected"
    /\ Health.pricing = "cheap"

TypeOK ==
    /\ pc \in {"idle", "loop", "await", "returned", "threw",
               "render", "renderReturned", "renderThrew"}
    /\ \A p \in Paths : activePromises[p] \in 0..N
    /\ raced \subseteq 1..N

====
